---- MODULE Spec2Model ----
(***************************************************************************)
(* lectureAI. The retrieval engine: the chunker (create_chunks), the        *)
(* per-document vector store (vector_store.py as excerpted in              *)
(* TECHNICAL_GUIDE.md) with its persistence layer, start-up loading,       *)
(* search, course-wide queries (query_multiple_documents), document        *)
(* deletion and the ingestion path, run by concurrent request handlers     *)
(* over one process-wide registry and one embeddings directory. The web    *)
(* client: the DocumentList component with its polling timer,              *)
(* APIClient.request, the DocumentViewer card, the AuthProvider and the    *)
(* UploadDocumentDialog.                                                   *)
(***************************************************************************)
EXTENDS Integers, Sequences, FiniteSets, TLC

\* ------------------------------------------------------------------ bounds

\* Ingestion calls issued over a whole run (caps the call counter).
MaxCalls == 2
\* Largest number of chunks one ingestion call hands to the store.
MaxBatch == 2

\* Request-handling threads and the document ids they are given.
Threads == {1, 2}
Docs == {1, 12}

\* ------------------------------------------------------- program constants

\* search_document(..., k: int = 5)
DefaultK == 5
\* "document_id not in self.document_indices": the registry holds no entry.
None == 0
NoObj == [kind |-> "free"]
EmptyMeta == [call |-> 0, chunk_index |-> 0]

\* ------------------------------------------------------------- file names

DigitChars == <<"0", "1", "2", "3", "4", "5", "6", "7", "8", "9">>

\* str(document_id) of an f-string, for document_id >= 0.
RECURSIVE ToDigits(_)
ToDigits(n) ==
  IF n < 10 THEN <<DigitChars[n + 1]>>
  ELSE Append(ToDigits(n \div 10), DigitChars[(n % 10) + 1])

DigitValue(c) == CHOOSE v \in 0..9 : DigitChars[v + 1] = c

IsDigit(c) == \E v \in 0..9 : DigitChars[v + 1] = c

\* int(text): the value, or -1 for the ValueError int() raises.
RECURSIVE ParseInt(_)
ParseInt(s) ==
  IF s = <<>> THEN -1
  ELSE IF ~IsDigit(s[Len(s)]) THEN -1
  ELSE IF Len(s) = 1 THEN DigitValue(s[1])
  ELSE LET hi == ParseInt(SubSeq(s, 1, Len(s) - 1))
       IN IF hi < 0 THEN -1 ELSE hi * 10 + DigitValue(s[Len(s)])

\* A file "<index_path>_doc_<stem>.<ext>" of the embeddings directory: stem is
\* the text between "_doc_" and the first ".".
FileName(stem, ext) == [stem |-> stem, ext |-> ext]

\* save_path = f"{self.index_path}_doc_{document_id}"
SavePathShared(document_id) == <<"0">>
SavePath(document_id) == ToDigits(document_id)

\* f"{save_path}.faiss" and f"{save_path}.metadata"
FaissFile(document_id) == FileName(SavePath(document_id), "faiss")
MetadataFileSameAsFaiss(document_id) == FileName(SavePath(document_id), "faiss")
MetadataFile(document_id) == FileName(SavePath(document_id), "metadata")

\* A file some operator left in the directory, e.g. faiss_index_doc_old.faiss.
StrayFile == FileName(<<"o", "l", "d">>, "faiss")

Torn == [kind |-> "torn"]

WriteFile(d, name, content) ==
  [n \in (DOMAIN d) \cup {name} |-> IF n = name THEN content ELSE d[n]]

RemoveFile(d, name) == [n \in (DOMAIN d) \ {name} |-> d[n]]

\* ---------------------------------------------------------------- vectors

\* Vectors are modelled in the plane with integer coordinates. A unit vector
\* has length 5, so a similarity of 1.0 reads 25. RawVectors are what the
\* embedding service produces: each a positive multiple of one unit vector.
UnitVectors == {<<5, 0>>, <<0, 5>>, <<3, 4>>, <<4, 3>>}
RawVectors == <<(<<5, 0>>), (<<6, 8>>), (<<0, 10>>), (<<8, 6>>)>>

\* faiss.normalize_L2: the unit vector of the same direction (a zero vector
\* is left as it is).
NormalizeL2(v) ==
  IF v[1] * v[1] + v[2] * v[2] = 0 THEN v
  ELSE CHOOSE u \in UnitVectors :
         /\ u[1] * v[2] = u[2] * v[1]
         /\ u[1] * v[1] + u[2] * v[2] > 0

InnerProduct(u, v) == u[1] * v[1] + u[2] * v[2]

\* A chunk of the batch of ingestion call c; the metadata stored for it.
Chunk(c, i) == [call |-> c, chunk_index |-> i]

\* embedding_service.encode_chunks: one vector per chunk, a function of the
\* chunk's text alone.
EncodeChunk(ch) == RawVectors[((ch.call + ch.chunk_index) % Len(RawVectors)) + 1]

BatchOf(c, n) == [i \in 1..n |-> Chunk(c, i - 1)]

MapPut(m, k, v) == [x \in (DOMAIN m) \cup {k} |-> IF x = k THEN v ELSE m[x]]


\* ------------------------------------------------------------------ search

\* {'index': faiss_index, 'metadata': {}, 'dimension': d}
NewIndex(dimension) ==
  [kind |-> "index", index |-> <<>>, metadata |-> <<>>, dimension |-> dimension]

Ntotal(obj) == Len(obj.index)

\* The order in which the FAISS build in use returns vectors of equal score.
\* search_document does not sort: it passes on the order of index.search,
\* which FAISS fixes by its result heap and does not document. It is one
\* order for the life of a deployment.
VARIABLE tie_order

TieOrders == {"ascending", "descending"}

\* IndexFlatIP.search ranks by inner product, highest first; among equal scores
\* the position decides, in the order of the build.
BestOf(obj, q, S) ==
  CHOOSE i \in S : \A j \in S :
    \/ InnerProduct(obj.index[i + 1], q) > InnerProduct(obj.index[j + 1], q)
    \/ /\ InnerProduct(obj.index[i + 1], q) = InnerProduct(obj.index[j + 1], q)
       /\ IF tie_order = "ascending" THEN i <= j ELSE i >= j

RECURSIVE Ranked(_, _, _, _)
Ranked(obj, q, S, k) ==
  IF k = 0 \/ S = {} THEN <<>>
  ELSE LET b == BestOf(obj, q, S)
       IN <<b>> \o Ranked(obj, q, S \ {b}, k - 1)

Hit(document_id, obj, q, idx) ==
  [vector_id |-> idx,
   distance |-> 25 - InnerProduct(obj.index[idx + 1], q),
   similarity |-> InnerProduct(obj.index[idx + 1], q),
   metadata |-> IF idx \in DOMAIN obj.metadata THEN obj.metadata[idx] ELSE EmptyMeta,
   document_id |-> document_id]

\* The body of search_document once doc_data is in hand.
SearchIndex(document_id, obj, query_vector, k) ==
  LET q == NormalizeL2(query_vector)
      ids == Ranked(obj, q, 0..(Ntotal(obj) - 1), k)
  IN [n \in 1..Len(ids) |-> Hit(document_id, obj, q, ids[n])]

Queries == {<<10, 0>>, <<3, 4>>}

\* ------------------------------------------------------------- persistence

FaissContent(obj, by) ==
  [kind |-> "faiss", vectors |-> obj.index, dimension |-> obj.dimension, by |-> by]

MetadataContent(obj, by) ==
  [kind |-> "metadata", metadata |-> obj.metadata, dimension |-> obj.dimension,
   by |-> by]

\* load_document_index succeeds when both files are there, readable and of one
\* dimension.
CanLoad(d, document_id) ==
  /\ FaissFile(document_id) \in DOMAIN d
  /\ MetadataFile(document_id) \in DOMAIN d
  /\ d[FaissFile(document_id)].kind = "faiss"
  /\ d[MetadataFile(document_id)].kind = "metadata"
  /\ d[FaissFile(document_id)].dimension = d[MetadataFile(document_id)].dimension

Loaded(d, document_id) ==
  [kind |-> "index",
   index |-> d[FaissFile(document_id)].vectors,
   metadata |-> d[MetadataFile(document_id)].metadata,
   dimension |-> d[MetadataFile(document_id)].dimension]


\* ------------------------------------------------------------------- state

VARIABLES
  document_indices,  \* self.document_indices: document id -> heap object, or None
  heap,              \* the index objects of the process, by object id
  disk,              \* the embeddings directory: file name -> content
  phase,             \* "loading" while load_all_document_indices runs, then "running"
  listing,           \* entries of os.listdir the start-up loop has not visited yet
  pc,                \* per thread: the statement it is about to run
  call,              \* per thread: the arguments and locals of its call
  nextCall           \* number of the next ingestion call

storeVars == <<document_indices, heap, disk, phase, listing, pc, call, nextCall>>

\* The text being chunked by create_chunks.
VARIABLES
  sentences,       \* self._split_into_sentences(text): the word count of each sentence
  chunk_size,      \* self.chunk_size (CHUNK_SIZE)
  chunk_overlap,   \* self.chunk_overlap (CHUNK_OVERLAP)
  chunks,          \* the chunks appended so far
  current_chunk,   \* the sentences of the working buffer, by position in the text
  current_tokens,  \* the token estimate of the working buffer
  sentence_index,  \* position of the sentence the for loop takes next
  chunker          \* "idle", "called", "loop" or "returned"

chunkerVars ==
  <<sentences, chunk_size, chunk_overlap, chunks, current_chunk, current_tokens,
    sentence_index, chunker>>

\* One DocumentList instance of the web client.
VARIABLES
  mounted,         \* the DocumentList instance is in the tree
  courseId,        \* its courseId prop, as of the last render
  session,         \* useAuth().session, as of the last render
  effect_pending,  \* a render changed [courseId, session]; its effect has not run yet
  cleanup,         \* interval id held by the last effect's cleanup function, or 0
  intervals,       \* active timers: id -> the closure they call and when they are due
  last_fetch,      \* the latest call of fetchDocuments that went to the API
  now              \* the clock, in seconds

listVars ==
  <<mounted, courseId, session, effect_pending, cleanup, intervals, last_fetch, now>>

\* One call of APIClient.request of the web client.
VARIABLES
  request,   \* where the call of request() stands, with its arguments
  response,  \* the Response fetch resolved with, if it did
  settled    \* what the promise of request() settled with

requestVars == <<request, response, settled>>

\* What a step of one part leaves alone in the others.
\* The DocumentViewer component: its React state, the two values it renders
\* from (isProcessed of the document prop, the session of useAuth), the
\* position of each running loadContent and loadAiNotes call, and the notes
\* requests sent to the server so far.
VARIABLES
  isOpen,
  activeTab,
  content,
  aiNotes,
  loading,
  contentLoaded,
  notesLoaded,
  isProcessed,
  viewer_session,
  content_loads,
  notes_loads,
  notes_requests

viewerVars ==
  <<isOpen, activeTab, content, aiNotes, loading, contentLoaded, notesLoaded,
    isProcessed, viewer_session, content_loads, notes_loads, notes_requests>>

\* The AuthProvider component: its React state (session is named
\* provider_session here), the 'lectureai_session' entry of localStorage, and
\* the position of each of its running functions.
VARIABLES
  user,
  provider_session,
  usageStats,
  isLoading,
  localStorage,
  pending

authVars == <<user, provider_session, usageStats, isLoading, localStorage, pending>>

\* The UploadDocumentDialog component: its React state, what its props
\* lectureId and courseId name, the running uploadFiles calls, the pending
\* resetDialog timers, the ids handed out by onDrop, and the upload requests
\* sent per file.
VARIABLES
  open,
  files,
  uploading,
  destination,
  runs,
  reset_timers,
  nextId,
  uploads

uploadVars == <<open, files, uploading, destination, runs, reset_timers, nextId, uploads>>

\* What each group of actions leaves alone.
StoreOnly ==
  UNCHANGED <<tie_order, chunkerVars, listVars, requestVars, viewerVars, authVars,
              uploadVars>>
ChunkerOnly ==
  UNCHANGED <<tie_order, storeVars, listVars, requestVars, viewerVars, authVars,
              uploadVars>>
ListOnly ==
  UNCHANGED <<tie_order, storeVars, chunkerVars, requestVars, viewerVars, authVars,
              uploadVars>>
RequestOnly ==
  UNCHANGED <<tie_order, storeVars, chunkerVars, listVars, viewerVars, authVars,
              uploadVars>>
ViewerOnly ==
  UNCHANGED <<tie_order, storeVars, chunkerVars, listVars, requestVars, authVars,
              uploadVars>>
AuthOnly ==
  UNCHANGED <<tie_order, storeVars, chunkerVars, listVars, requestVars, viewerVars,
              uploadVars>>
UploadOnly ==
  UNCHANGED <<tie_order, storeVars, chunkerVars, listVars, requestVars, viewerVars,
              authVars>>

\* One object per registry slot and one per thread local (doc_data of
\* add_document_vectors, doc_data of save_document_index) is all that can be
\* referenced at a time.
ObjIds == 1..(Cardinality(Docs) + Cardinality(Threads) + Cardinality(Threads))

NoCall ==
  [op |-> "none", document_id |-> 0, document_ids |-> <<>>, batch |-> <<>>, id |-> 0,
   doc_data |-> None,
   save_data |-> None, current_size |-> 0, i |-> 0, query |-> <<0, 0>>, results |-> <<>>,
   before |-> <<>>]

\* Objects still referenced from the registry or from a thread's locals; the
\* others are reclaimed.
Referenced(di, cl) ==
  {di[d] : d \in Docs} \cup {cl[t].doc_data : t \in Threads}
    \cup {cl[t].save_data : t \in Threads}

Sweep(h, di, cl) ==
  [o \in ObjIds |-> IF o \in Referenced(di, cl) THEN h[o] ELSE NoObj]

FreshObj(h) == CHOOSE o \in ObjIds : h[o] = NoObj

\* What exists for one document: its in-memory index and its persisted files.
ViewOf(di, h, d, document_id) ==
  [memory |-> IF di[document_id] = None THEN NoObj ELSE h[di[document_id]],
   files |-> [n \in (DOMAIN d) \cap {FaissFile(document_id), MetadataFile(document_id)}
                |-> d[n]]]

EmptyDisk == [n \in {} |-> Torn]

InitStore ==
  /\ tie_order \in TieOrders
  /\ document_indices = [d \in Docs |-> None]
  /\ heap = [o \in ObjIds |-> NoObj]
  /\ disk \in {EmptyDisk, WriteFile(EmptyDisk, StrayFile, Torn)}
  /\ phase = "loading"
  /\ listing = DOMAIN disk
  /\ pc = [t \in Threads |-> "idle"]
  /\ call = [t \in Threads |-> NoCall]
  /\ nextCall = 1

\* ------------------------------------------------- load_all_document_indices

\* load_document_index(doc_id): registers the persisted index and returns
\* True, or returns False and registers nothing.
LoadDocumentIndex(document_id) ==
  IF CanLoad(disk, document_id)
  THEN LET o == FreshObj(heap)
       IN /\ heap' = Sweep([heap EXCEPT ![o] = Loaded(disk, document_id)],
                           [document_indices EXCEPT ![document_id] = o], call)
          /\ document_indices' = [document_indices EXCEPT ![document_id] = o]
  ELSE UNCHANGED <<heap, document_indices>>

\* One pass of the loop over os.listdir(embeddings_dir) for a file whose id
\* parses, or that the filter skips.
LoadAllVisit ==
  /\ phase = "loading"
  /\ \E f \in listing :
       /\ listing' = listing \ {f}
       /\ IF f.ext = "faiss"
          THEN /\ ParseInt(f.stem) >= 0
               /\ ParseInt(f.stem) \in Docs
               /\ LoadDocumentIndex(ParseInt(f.stem))
          ELSE UNCHANGED <<heap, document_indices>>
  /\ UNCHANGED <<disk, phase, pc, call, nextCall>>
  /\ StoreOnly

\* int(...) raises ValueError on a name whose id does not parse. Nothing in
\* the loop catches it: the loop is abandoned, and the process serves with what
\* was loaded before it.
LoadAllRaise ==
  /\ phase = "loading"
  /\ \E f \in listing : f.ext = "faiss" /\ ParseInt(f.stem) < 0
  /\ phase' = "running"
  /\ listing' = {}
  /\ UNCHANGED <<document_indices, heap, disk, pc, call, nextCall>>
  /\ StoreOnly

LoadAllDone ==
  /\ phase = "loading"
  /\ listing = {}
  /\ phase' = "running"
  /\ UNCHANGED <<document_indices, heap, disk, listing, pc, call, nextCall>>
  /\ StoreOnly


\* ------------------------------------------------------------------- ingest

\* ingest(document_id, text): the text chunks into n chunks.
IngestBegin(t) ==
  /\ phase = "running" /\ pc[t] = "idle"
  /\ nextCall <= MaxCalls
  /\ \E d \in Docs, n \in 1..MaxBatch :
       call' = [call EXCEPT ![t] =
                  [NoCall EXCEPT !.op = "ingest", !.document_id = d,
                                 !.id = nextCall, !.batch = BatchOf(nextCall, n),
                                 !.before = ViewOf(document_indices, heap, disk, d)]]
  /\ nextCall' = nextCall + 1
  /\ pc' = [pc EXCEPT ![t] = "embed"]
  /\ UNCHANGED <<document_indices, heap, disk, phase, listing>>
  /\ StoreOnly

\* The embedding service returns the batch of vectors.
EmbedOk(t) ==
  /\ phase = "running" /\ pc[t] = "embed"
  /\ pc' = [pc EXCEPT ![t] = "add_check"]
  /\ UNCHANGED <<document_indices, heap, disk, phase, listing, call, nextCall>>
  /\ StoreOnly

\* The embedding service fails: the ingestion call ends with the error.
EmbedFail(t) ==
  /\ phase = "running" /\ pc[t] = "embed"
  /\ pc' = [pc EXCEPT ![t] = "failed"]
  /\ UNCHANGED <<document_indices, heap, disk, phase, listing, call, nextCall>>
  /\ StoreOnly

IngestPcs ==
  {"embed", "add_check", "add_create", "add_get", "add_index", "add_meta",
   "save_faiss", "save_meta"}

\* The caller cancels the ingestion: the thread stops where it is.
Cancel(t) ==
  /\ phase = "running" /\ pc[t] \in IngestPcs
  /\ pc' = [pc EXCEPT ![t] = "cancelled"]
  /\ call' = [call EXCEPT ![t].doc_data = None, ![t].save_data = None]
  /\ heap' = Sweep(heap, document_indices, call')
  /\ UNCHANGED <<document_indices, disk, phase, listing, nextCall>>
  /\ StoreOnly

\* ----------------------------------------------------- add_document_vectors

\* if document_id not in self.document_indices:
AddCheck(t) ==
  /\ phase = "running" /\ pc[t] = "add_check"
  /\ pc' = [pc EXCEPT ![t] =
              IF document_indices[call[t].document_id] = None
              THEN "add_create" ELSE "add_get"]
  /\ UNCHANGED <<document_indices, heap, disk, phase, listing, call, nextCall>>
  /\ StoreOnly

\* self.document_indices[document_id] = {new index}
AddCreate(t) ==
  /\ phase = "running" /\ pc[t] = "add_create"
  /\ LET d == call[t].document_id
         di == [document_indices EXCEPT ![d] = None]
         o == FreshObj(Sweep(heap, di, call))
         vectors == [n \in 1..Len(call[t].batch) |-> EncodeChunk(call[t].batch[n])]
     IN /\ document_indices' = [document_indices EXCEPT ![d] = o]
        /\ heap' = [Sweep(heap, di, call) EXCEPT ![o] = NewIndex(Len(vectors[1]))]
  /\ pc' = [pc EXCEPT ![t] = "add_get"]
  /\ UNCHANGED <<disk, phase, listing, call, nextCall>>
  /\ StoreOnly

\* doc_data = self.document_indices[document_id]; current_size = ntotal
AddGet(t) ==
  /\ phase = "running" /\ pc[t] = "add_get"
  /\ LET o == document_indices[call[t].document_id]
     IN IF o = None
        THEN /\ pc' = [pc EXCEPT ![t] = "failed"]
             /\ UNCHANGED call
        ELSE /\ pc' = [pc EXCEPT ![t] = "add_index"]
             /\ call' = [call EXCEPT ![t].doc_data = o,
                                     ![t].current_size = Ntotal(heap[o])]
  /\ UNCHANGED <<document_indices, heap, disk, phase, listing, nextCall>>
  /\ StoreOnly

\* faiss.normalize_L2(vectors); doc_data['index'].add(vectors)
AddIndex(t) ==
  /\ phase = "running" /\ pc[t] = "add_index"
  /\ LET o == call[t].doc_data
         vectors == [n \in 1..Len(call[t].batch) |->
                       NormalizeL2(EncodeChunk(call[t].batch[n]))]
     IN heap' = [heap EXCEPT ![o].index = @ \o vectors]
  /\ pc' = [pc EXCEPT ![t] = "add_meta"]
  /\ UNCHANGED <<document_indices, disk, phase, listing, call, nextCall>>
  /\ StoreOnly

\* vector_id = current_size + i
VectorIdFromZero(current_size, i) == i
VectorId(current_size, i) == current_size + i

\* One pass of "for i, metadata in enumerate(metadata_list)".
AddMeta(t) ==
  /\ phase = "running" /\ pc[t] = "add_meta"
  /\ LET o == call[t].doc_data
         i == call[t].i
     IN /\ heap' = [heap EXCEPT ![o].metadata =
                      MapPut(@, VectorId(call[t].current_size, i), call[t].batch[i + 1])]
        /\ call' = [call EXCEPT ![t].i = i + 1]
        /\ pc' = [pc EXCEPT ![t] =
                    IF i + 1 = Len(call[t].batch) THEN "save_faiss" ELSE "add_meta"]
  /\ UNCHANGED <<document_indices, disk, phase, listing, nextCall>>
  /\ StoreOnly

\* ------------------------------------------------------- save_document_index

\* doc_data is looked up again; faiss.write_index(doc_data['index'], ...)
SaveFaiss(t) ==
  /\ phase = "running" /\ pc[t] = "save_faiss"
  /\ LET d == call[t].document_id
         o == document_indices[d]
     IN IF o = None
        THEN /\ pc' = [pc EXCEPT ![t] = "failed"]
             /\ UNCHANGED <<call, disk>>
        ELSE /\ pc' = [pc EXCEPT ![t] = "save_meta"]
             /\ call' = [call EXCEPT ![t].save_data = o]
             /\ disk' = WriteFile(disk, FaissFile(d), FaissContent(heap[o], call[t].id))
  /\ UNCHANGED <<document_indices, heap, phase, listing, nextCall>>
  /\ StoreOnly

\* pickle.dump({'metadata': ..., 'dimension': ...}, f)
SaveMeta(t) ==
  /\ phase = "running" /\ pc[t] = "save_meta"
  /\ LET d == call[t].document_id
         o == call[t].save_data
     IN disk' = WriteFile(disk, MetadataFile(d), MetadataContent(heap[o], call[t].id))
  /\ pc' = [pc EXCEPT ![t] = "done"]
  /\ UNCHANGED <<document_indices, heap, phase, listing, call, nextCall>>
  /\ StoreOnly


\* ----------------------------------------------------------- search_document

\* query(document_id, text, k): the query text is embedded to query_vector and
\* search_document starts:
\* if document_id not in self.document_indices:
\*     if not self.load_document_index(document_id): return []
AfterLoadSearchAnyway(loaded) == "search_run"
AfterLoad(loaded) == IF loaded THEN "search_run" ELSE "search_return"

SearchCheck(t) ==
  /\ phase = "running" /\ pc[t] = "idle"
  /\ \E d \in Docs, q \in Queries :
       /\ call' = [call EXCEPT ![t] =
                     [NoCall EXCEPT !.op = "search", !.document_id = d, !.query = q]]
       /\ IF document_indices[d] # None
          THEN /\ pc' = [pc EXCEPT ![t] = "search_run"]
               /\ UNCHANGED <<document_indices, heap>>
          ELSE /\ LoadDocumentIndex(d)
               /\ pc' = [pc EXCEPT ![t] = AfterLoad(CanLoad(disk, d))]
  /\ UNCHANGED <<disk, phase, listing, nextCall>>
  /\ StoreOnly

\* doc_data = self.document_indices[document_id]; the index search and the
\* join of its hits with doc_data['metadata'].
SearchRun(t) ==
  /\ phase = "running" /\ pc[t] = "search_run"
  /\ LET d == call[t].document_id
         o == document_indices[d]
     IN IF o = None
        THEN /\ pc' = [pc EXCEPT ![t] = "failed"]
             /\ UNCHANGED call
        ELSE /\ pc' = [pc EXCEPT ![t] = "search_return"]
             /\ call' = [call EXCEPT ![t].results =
                           SearchIndex(d, heap[o], call[t].query, DefaultK)]
  /\ UNCHANGED <<document_indices, heap, disk, phase, listing, nextCall>>
  /\ StoreOnly

\* -------------------------------------------------- query_multiple_documents

\* search_document(doc_id, query_embedding, k=3)
KPerDocument == 3
\* MAX_RETRIEVED_DOCS=5
MAX_RETRIEVED_DOCS == 5

\* The orders in which a caller may hand over the documents of a course.
RECURSIVE Orderings(_)
Orderings(S) ==
  IF S = {} THEN {<<>>}
  ELSE UNION {{<<d>> \o rest : rest \in Orderings(S \ {d})} : d \in S}

DocumentIdLists == UNION {Orderings(S) : S \in SUBSET Docs}

\* list.sort(key=lambda x: x['similarity'], reverse=True): a stable sort, so
\* hits of equal similarity stay in the order they were appended in.
InsertHitAscending(sorted, h) ==
  LET n == Cardinality({m \in DOMAIN sorted : sorted[m].similarity <= h.similarity})
  IN SubSeq(sorted, 1, n) \o <<h>> \o SubSeq(sorted, n + 1, Len(sorted))
InsertHit(sorted, h) ==
  LET n == Cardinality({m \in DOMAIN sorted : sorted[m].similarity >= h.similarity})
  IN SubSeq(sorted, 1, n) \o <<h>> \o SubSeq(sorted, n + 1, Len(sorted))

RECURSIVE SortBySimilarity(_)
SortBySimilarity(all_chunks) ==
  IF all_chunks = <<>> THEN <<>>
  ELSE InsertHit(SortBySimilarity(SubSeq(all_chunks, 1, Len(all_chunks) - 1)),
                 all_chunks[Len(all_chunks)])

\* all_chunks[:self.max_retrieved_docs]
Truncate(all_chunks, n) ==
  SubSeq(all_chunks, 1, IF Len(all_chunks) < n THEN Len(all_chunks) ELSE n)

\* What search_document(document_id, query_vector, k) returns in this state:
\* the hits of the resident index, or of the index it loads, or [].
SearchDocument(document_id, query_vector, k) ==
  IF document_indices[document_id] # None
  THEN SearchIndex(document_id, heap[document_indices[document_id]], query_vector, k)
  ELSE IF CanLoad(disk, document_id)
       THEN SearchIndex(document_id, Loaded(disk, document_id), query_vector, k)
       ELSE <<>>

\* query_multiple_documents(user_input, document_ids): the query is embedded
\* and all_chunks = [].
QueryBegin(t) ==
  /\ phase = "running" /\ pc[t] = "idle"
  /\ \E ids \in DocumentIdLists, q \in Queries :
       call' = [call EXCEPT ![t] =
                  [NoCall EXCEPT !.op = "query_many", !.document_ids = ids, !.query = q]]
  /\ pc' = [pc EXCEPT ![t] = "query_loop"]
  /\ UNCHANGED <<document_indices, heap, disk, phase, listing, nextCall>>
  /\ StoreOnly

\* One pass of "for doc_id in document_ids": search_document run to its
\* return (with its lazy load), then all_chunks.extend of its hits.
QuerySearch(t) ==
  /\ phase = "running" /\ pc[t] = "query_loop"
  /\ call[t].i < Len(call[t].document_ids)
  /\ LET d == call[t].document_ids[call[t].i + 1]
         hits == SearchDocument(d, call[t].query, KPerDocument)
     IN /\ call' = [call EXCEPT ![t].results = @ \o hits, ![t].i = @ + 1]
        /\ IF document_indices[d] # None
           THEN UNCHANGED <<document_indices, heap>>
           ELSE LoadDocumentIndex(d)
  /\ UNCHANGED <<disk, phase, listing, pc, nextCall>>
  /\ StoreOnly

\* all_chunks.sort(...); return all_chunks[:self.max_retrieved_docs]
QuerySort(t) ==
  /\ phase = "running" /\ pc[t] = "query_loop"
  /\ call[t].i = Len(call[t].document_ids)
  /\ call' = [call EXCEPT ![t].results =
                Truncate(SortBySimilarity(call[t].results), MAX_RETRIEVED_DOCS)]
  /\ pc' = [pc EXCEPT ![t] = "query_return"]
  /\ UNCHANGED <<document_indices, heap, disk, phase, listing, nextCall>>
  /\ StoreOnly

QueryStep(t) == QueryBegin(t) \/ QuerySearch(t) \/ QuerySort(t)

\* ------------------------------------------------------------ deleteDocument

\* deleteDocument(document_id): the durable files go first, the vector file
\* before the metadata file.
DeleteFaiss(t) ==
  /\ phase = "running" /\ pc[t] = "idle"
  /\ \E d \in Docs :
       /\ call' = [call EXCEPT ![t] =
                     [NoCall EXCEPT !.op = "delete", !.document_id = d]]
       /\ disk' = RemoveFile(disk, FaissFile(d))
  /\ pc' = [pc EXCEPT ![t] = "delete_metadata"]
  /\ UNCHANGED <<document_indices, heap, phase, listing, nextCall>>
  /\ StoreOnly

DeleteMetadata(t) ==
  /\ phase = "running" /\ pc[t] = "delete_metadata"
  /\ disk' = RemoveFile(disk, MetadataFile(call[t].document_id))
  /\ pc' = [pc EXCEPT ![t] = "delete_memory"]
  /\ UNCHANGED <<document_indices, heap, phase, listing, call, nextCall>>
  /\ StoreOnly

\* Then the in-memory entry is dropped and the call returns ok.
DeleteMemory(t) ==
  /\ phase = "running" /\ pc[t] = "delete_memory"
  /\ document_indices' = [document_indices EXCEPT ![call[t].document_id] = None]
  /\ heap' = Sweep(heap, document_indices', call)
  /\ pc' = [pc EXCEPT ![t] = "delete_return"]
  /\ UNCHANGED <<disk, phase, listing, call, nextCall>>
  /\ StoreOnly

\* ------------------------------------------------------------ create_chunks

\* Longest text handed to the chunker, in sentences, and longest sentence, in
\* words.
MaxSentences == 4
MaxWords == 3
\* Largest configured chunk size and overlap.
MaxChunkSize == 3
MaxChunkOverlap == 3

RECURSIVE Texts(_)
Texts(n) ==
  IF n = 0 THEN {<<>>}
  ELSE Texts(n - 1) \cup
       {Append(text, w) : text \in Texts(n - 1), w \in 1..MaxWords}

\* sum(len(s.split()) for s in current_chunk)
RECURSIVE TokensOf(_, _)
TokensOf(text, chunk) ==
  IF chunk = <<>> THEN 0
  ELSE text[chunk[1]] + TokensOf(text, Tail(chunk))

\* current_chunk[-self.chunk_overlap:], a Python slice: the last n elements,
\* the whole list when it has no more than n, and the whole list for n = 0,
\* where -0 is 0.
LastSentences(chunk, n) ==
  IF n = 0 \/ n >= Len(chunk) THEN chunk
  ELSE SubSeq(chunk, Len(chunk) - n + 1, Len(chunk))

\* chunks.append({'text': ' '.join(current_chunk), 'metadata': {...}})
SealedChunk(chunk, tokens, index) ==
  [text |-> chunk, chunk_index |-> index, estimated_tokens |-> tokens,
   sentence_count |-> Len(chunk)]

ChunkerIdle ==
  /\ sentences = <<>> /\ chunk_size = 0 /\ chunk_overlap = 0
  /\ chunks = <<>> /\ current_chunk = <<>> /\ current_tokens = 0
  /\ sentence_index = 0 /\ chunker = "idle"

\* create_chunks is called with a text, under some configuration.
InitChunker ==
  /\ sentences \in Texts(MaxSentences)
  /\ chunk_size \in 1..MaxChunkSize
  /\ chunk_overlap \in 0..MaxChunkOverlap
  /\ chunks = <<>> /\ current_chunk = <<>> /\ current_tokens = 0
  /\ sentence_index = 0 /\ chunker = "called"

\* chunks = []; current_chunk = []; current_tokens = 0
ChunkBegin ==
  /\ chunker = "called"
  /\ chunks' = <<>> /\ current_chunk' = <<>> /\ current_tokens' = 0
  /\ sentence_index' = 1
  /\ chunker' = "loop"
  /\ UNCHANGED <<sentences, chunk_size, chunk_overlap>>
  /\ ChunkerOnly

\* One pass of "for sentence in sentences".
ChunkSentence ==
  /\ chunker = "loop" /\ sentence_index <= Len(sentences)
  /\ LET sentence_tokens == sentences[sentence_index]
     IN IF current_tokens + sentence_tokens > chunk_size /\ current_chunk # <<>>
        THEN LET overlap_sentences == LastSentences(current_chunk, chunk_overlap)
             IN /\ chunks' = Append(chunks,
                               SealedChunk(current_chunk, current_tokens, Len(chunks)))
                /\ current_chunk' = Append(overlap_sentences, sentence_index)
                /\ current_tokens' = TokensOf(sentences, current_chunk')
        ELSE /\ current_chunk' = Append(current_chunk, sentence_index)
             /\ current_tokens' = current_tokens + sentence_tokens
             /\ UNCHANGED chunks
  /\ sentence_index' = sentence_index + 1
  /\ UNCHANGED <<sentences, chunk_size, chunk_overlap, chunker>>
  /\ ChunkerOnly

\* The loop is over: the function ends with the chunks it has appended.
ChunkReturn ==
  /\ chunker = "loop" /\ sentence_index > Len(sentences)
  /\ chunker' = "returned"
  /\ UNCHANGED <<sentences, chunk_size, chunk_overlap, chunks, current_chunk,
                 current_tokens, sentence_index>>
  /\ ChunkerOnly

CreateChunks == ChunkBegin \/ ChunkSentence \/ ChunkReturn

\* ------------------------------------------------------------ DocumentList

\* Seconds of wall-clock time a run covers.
MaxTime == 11

\* setInterval(fetchDocuments, 5000), in seconds.
PollSeconds == 5

CourseIds == {"1", "2"}
NoSession == "null"
Sessions == {"session_a", "session_b"}

NoCleanup == 0
NoFetch == [at |-> 0, courseId |-> "", session |-> NoSession, by |-> "nobody"]
NoIntervals == [id \in {} |-> NoFetch]

\* setInterval: the id of the new timer.
NewIntervalId(timers) ==
  IF DOMAIN timers = {} THEN 1
  ELSE (CHOOSE id \in DOMAIN timers : \A other \in DOMAIN timers : other <= id) + 1

SetInterval(timers, id, c, s, due) ==
  [x \in (DOMAIN timers) \cup {id} |->
     IF x = id THEN [courseId |-> c, session |-> s, due |-> due] ELSE timers[x]]

\* clearInterval(interval)
ClearIntervalNever(timers, id) == timers
ClearInterval(timers, id) == [x \in (DOMAIN timers) \ {id} |-> timers[x]]

\* The cleanup function React holds, if any, is called.
RunCleanup(timers, held) ==
  IF held = NoCleanup THEN timers ELSE ClearInterval(timers, held)

ListUnmounted ==
  /\ mounted = FALSE /\ courseId = "" /\ session = NoSession
  /\ effect_pending = FALSE /\ cleanup = NoCleanup /\ intervals = NoIntervals
  /\ last_fetch = NoFetch /\ now = 0

\* The component mounts: first render, effect scheduled.
Mount ==
  /\ ~mounted
  /\ mounted' = TRUE
  /\ courseId' \in CourseIds
  /\ session' \in Sessions \cup {NoSession}
  /\ effect_pending' = TRUE
  /\ UNCHANGED <<cleanup, intervals, last_fetch, now>>
  /\ ListOnly

\* A re-render in which courseId or session differs from the last render.
Rerender ==
  /\ mounted
  /\ \E c \in CourseIds, s \in Sessions \cup {NoSession} :
       /\ <<c, s>> # <<courseId, session>>
       /\ courseId' = c
       /\ session' = s
  /\ effect_pending' = TRUE
  /\ UNCHANGED <<mounted, cleanup, intervals, last_fetch, now>>
  /\ ListOnly

\* React flushes the effect: the previous cleanup, then the effect body
\*   if (session?.session_id) { fetchDocuments();
\*     const interval = setInterval(fetchDocuments, 5000)
\*     return () => clearInterval(interval) }
RunEffect ==
  /\ mounted /\ effect_pending
  /\ effect_pending' = FALSE
  /\ LET cleared == RunCleanup(intervals, cleanup)
         interval == NewIntervalId(cleared)
     IN IF session # NoSession
        THEN /\ last_fetch' = [at |-> now, courseId |-> courseId, session |-> session,
                               by |-> "effect"]
             /\ intervals' = SetInterval(cleared, interval, courseId, session,
                                         now + PollSeconds)
             /\ cleanup' = interval
        ELSE /\ intervals' = cleared
             /\ cleanup' = NoCleanup
             /\ UNCHANGED last_fetch
  /\ UNCHANGED <<mounted, courseId, session, now>>
  /\ ListOnly

\* The component unmounts: React calls the cleanup of the last effect that ran.
Unmount ==
  /\ mounted
  /\ mounted' = FALSE
  /\ intervals' = RunCleanup(intervals, cleanup)
  /\ cleanup' = NoCleanup
  /\ effect_pending' = FALSE
  /\ courseId' = "" /\ session' = NoSession
  /\ UNCHANGED <<last_fetch, now>>
  /\ ListOnly

\* A timer comes due and calls the fetchDocuments it was given, which reads the
\* courseId and session of the render that set the timer.
IntervalFires ==
  /\ \E id \in DOMAIN intervals :
       /\ intervals[id].due = now
       /\ intervals' = [intervals EXCEPT ![id].due = now + PollSeconds]
       /\ IF intervals[id].session # NoSession
          THEN last_fetch' = [at |-> now, courseId |-> intervals[id].courseId,
                              session |-> intervals[id].session, by |-> "interval"]
          ELSE UNCHANGED last_fetch
  /\ UNCHANGED <<mounted, courseId, session, effect_pending, cleanup, now>>
  /\ ListOnly

\* A second passes: no timer is overdue and no effect is waiting to be flushed.
Tick ==
  /\ now < MaxTime
  /\ ~effect_pending
  /\ \A id \in DOMAIN intervals : intervals[id].due > now
  /\ now' = now + 1
  /\ UNCHANGED <<mounted, courseId, session, effect_pending, cleanup, intervals,
                 last_fetch>>
  /\ ListOnly

DocumentList == Mount \/ Rerender \/ RunEffect \/ Unmount \/ IntervalFires \/ Tick

\* ------------------------------------------------------- APIClient.request

Endpoints == {"/courses", "/courses/1/documents", "/documents/1"}
HttpStatuses == {200, 201, 400, 401, 404, 500}
ErrorTexts == {"", "detail"}

NoRequest == [at |-> "idle", endpoint |-> "", headers |-> {}, body |-> "unread"]
NoResponse == [status |-> 0, ok |-> FALSE]
Unsettled == [state |-> "pending"]

\* response.ok
Ok(status) == status >= 200 /\ status <= 299

\* new APIError(status, message)
APIError(status, message) == [name |-> "APIError", status |-> status, message |-> message]
\* What fetch, response.text() and response.json() reject with.
TypeError == [name |-> "TypeError", status |-> -1, message |-> "Failed to fetch"]
SyntaxError == [name |-> "SyntaxError", status |-> -1, message |-> "Unexpected token"]

\* catch (error) { if (error instanceof APIError) throw error
\*   throw new APIError(0, `Network error: ...`) }
CatchRethrow(error) == error
Catch(error) ==
  IF error.name = "APIError" THEN error
  ELSE APIError(0, "Network error")

Rejected(error) == [state |-> "rejected", error |-> error]
Resolved == [state |-> "resolved"]

RequestIdle == request = NoRequest /\ response = NoResponse /\ settled = Unsettled

\* request(endpoint, options, sessionId): the headers are built and fetch is
\* called.
RequestBegin ==
  /\ request.at = "idle"
  /\ \E endpoint \in Endpoints, sessionId \in Sessions \cup {NoSession} :
       request' = [at |-> "fetch", endpoint |-> endpoint,
                   headers |-> {"Content-Type"} \cup
                               (IF sessionId # NoSession THEN {"X-Session-ID"} ELSE {}),
                   body |-> "unread"]
  /\ response' = NoResponse
  /\ settled' = Unsettled
  /\ RequestOnly

\* fetch rejects (the network is down, the request is blocked).
FetchRejects ==
  /\ request.at = "fetch"
  /\ request' = [request EXCEPT !.at = "settled"]
  /\ settled' = Rejected(Catch(TypeError))
  /\ UNCHANGED response
  /\ RequestOnly

\* fetch resolves with a response; if (!response.ok) the error text is read,
\* else the body is parsed.
FetchResolves ==
  /\ request.at = "fetch"
  /\ \E status \in HttpStatuses :
       /\ response' = [status |-> status, ok |-> Ok(status)]
       /\ request' = [request EXCEPT !.at = IF Ok(status) THEN "json" ELSE "text"]
  /\ UNCHANGED settled
  /\ RequestOnly

\* await response.text() gives the text:
\* throw new APIError(response.status, errorText || response.statusText)
TextResolves ==
  /\ request.at = "text"
  /\ request' = [request EXCEPT !.at = "settled", !.body = "read"]
  /\ \E errorText \in ErrorTexts :
       settled' = Rejected(Catch(APIError(response.status,
                    IF errorText # "" THEN errorText ELSE "statusText")))
  /\ UNCHANGED response
  /\ RequestOnly

\* await response.text() rejects: the body could not be read to its end.
TextRejects ==
  /\ request.at = "text"
  /\ request' = [request EXCEPT !.at = "settled", !.body = "failed"]
  /\ settled' = Rejected(Catch(TypeError))
  /\ UNCHANGED response
  /\ RequestOnly

\* return await response.json()
JsonResolves ==
  /\ request.at = "json"
  /\ request' = [request EXCEPT !.at = "settled", !.body = "read"]
  /\ settled' = Resolved
  /\ UNCHANGED response
  /\ RequestOnly

\* response.json() rejects: the body is not JSON, or could not be read.
JsonRejects ==
  /\ request.at = "json"
  /\ request' = [request EXCEPT !.at = "settled", !.body = "failed"]
  /\ \E error \in {SyntaxError, TypeError} : settled' = Rejected(Catch(error))
  /\ UNCHANGED response
  /\ RequestOnly

\* The caller has taken the outcome; the client is free for the next call.
RequestEnds ==
  /\ request.at = "settled"
  /\ request' = NoRequest /\ response' = NoResponse /\ settled' = Unsettled
  /\ RequestOnly

Request ==
  \/ RequestBegin \/ FetchRejects \/ FetchResolves \/ TextResolves \/ TextRejects
  \/ JsonResolves \/ JsonRejects \/ RequestEnds

\* ---------------------------------------------------------- DocumentViewer

\* How many loadContent calls, and how many loadAiNotes calls, are awaiting a
\* response at a time.
MaxLoads == 2

Loads == 1..MaxLoads

NotesTexts == {"notes"}

NoLoads == [i \in Loads |-> "idle"]

FreeLoad(loads) == CHOOSE i \in Loads : loads[i] = "idle"

\* The card before its first click; document and session not yet known to
\* matter.
ViewerClosed ==
  /\ isOpen = FALSE /\ activeTab = "content"
  /\ content = "" /\ aiNotes = ""
  /\ loading = FALSE /\ contentLoaded = FALSE /\ notesLoaded = FALSE
  /\ isProcessed = FALSE /\ viewer_session = NoSession
  /\ content_loads = NoLoads /\ notes_loads = NoLoads
  /\ notes_requests = <<>>

\* The card as first rendered, for any document and any auth state.
InitViewer ==
  /\ isOpen = FALSE /\ activeTab = "content"
  /\ content = "" /\ aiNotes = ""
  /\ loading = FALSE /\ contentLoaded = FALSE /\ notesLoaded = FALSE
  /\ isProcessed \in BOOLEAN
  /\ viewer_session \in {NoSession} \cup Sessions
  /\ content_loads = NoLoads /\ notes_loads = NoLoads
  /\ notes_requests = <<>>

\* loadContent up to its await: the early return, or the spinner and the
\* request.
loadContent ==
  IF contentLoaded \/ ~isProcessed \/ viewer_session = NoSession
  THEN UNCHANGED <<loading, content_loads>>
  ELSE /\ \E i \in Loads : content_loads[i] = "idle"
       /\ loading' = TRUE
       /\ content_loads' = [content_loads EXCEPT ![FreeLoad(content_loads)] = "get"]

\* loadAiNotes up to its await: the early return, or the first getAINote.
loadAiNotes ==
  IF notesLoaded \/ ~isProcessed \/ viewer_session = NoSession
  THEN UNCHANGED <<notes_loads, notes_requests>>
  ELSE /\ \E i \in Loads : notes_loads[i] = "idle"
       /\ notes_loads' = [notes_loads EXCEPT ![FreeLoad(notes_loads)] = "get"]
       /\ notes_requests' = Append(notes_requests, "getAINote")

handleToggle ==
  LET newIsOpen == ~isOpen IN
  /\ isOpen' = newIsOpen
  /\ IF newIsOpen /\ isProcessed
     THEN loadContent /\ loadAiNotes
     ELSE UNCHANGED <<loading, content_loads, notes_loads, notes_requests>>
  /\ UNCHANGED <<activeTab, content, aiNotes, contentLoaded, notesLoaded,
                 isProcessed, viewer_session>>
  /\ ViewerOnly

\* The tab buttons are rendered only in an open card of a processed document.
handleTabChange(tab) ==
  /\ isOpen /\ isProcessed
  /\ activeTab' = tab
  /\ IF tab = "content" /\ ~contentLoaded
     THEN loadContent /\ UNCHANGED <<notes_loads, notes_requests>>
     ELSE IF tab = "notes" /\ ~notesLoaded
          THEN loadAiNotes /\ UNCHANGED <<loading, content_loads>>
          ELSE UNCHANGED <<loading, content_loads, notes_loads, notes_requests>>
  /\ UNCHANGED <<isOpen, content, aiNotes, contentLoaded, notesLoaded,
                 isProcessed, viewer_session>>
  /\ ViewerOnly

\* The transcript or the chunks arrive.
ContentResolves(i) ==
  /\ content_loads[i] = "get"
  /\ content' = "content"
  /\ contentLoaded' = TRUE
  /\ loading' = FALSE
  /\ content_loads' = [content_loads EXCEPT ![i] = "idle"]
  /\ UNCHANGED <<isOpen, activeTab, aiNotes, notesLoaded, isProcessed,
                 viewer_session, notes_loads, notes_requests>>
  /\ ViewerOnly

ContentRejects(i) ==
  /\ content_loads[i] = "get"
  /\ content' = "Failed to load content"
  /\ loading' = FALSE
  /\ content_loads' = [content_loads EXCEPT ![i] = "idle"]
  /\ UNCHANGED <<isOpen, activeTab, aiNotes, contentLoaded, notesLoaded,
                 isProcessed, viewer_session, notes_loads, notes_requests>>
  /\ ViewerOnly

\* setAiNotes(...); setNotesLoaded(true): the three places a loadAiNotes call
\* ends.
NotesLoadEnds(i, text) ==
  /\ aiNotes' = text
  /\ notesLoaded' = TRUE
  /\ notes_loads' = [notes_loads EXCEPT ![i] = "idle"]
  /\ UNCHANGED <<isOpen, activeTab, content, loading, contentLoaded,
                 isProcessed, viewer_session, content_loads, notes_requests>>
  /\ ViewerOnly

\* The first getAINote resolves.
NotesResolve(i) ==
  /\ notes_loads[i] = "get"
  /\ \E text \in NotesTexts : NotesLoadEnds(i, text)

\* The first getAINote rejects: the catch block sends generateAINote.
NotesReject(i) ==
  /\ notes_loads[i] = "get"
  /\ notes_loads' = [notes_loads EXCEPT ![i] = "generate"]
  /\ notes_requests' = Append(notes_requests, "generateAINote")
  /\ UNCHANGED <<isOpen, activeTab, content, aiNotes, loading, contentLoaded,
                 notesLoaded, isProcessed, viewer_session, content_loads>>
  /\ ViewerOnly

\* generateAINote resolves: the second getAINote is sent.
GenerateResolves(i) ==
  /\ notes_loads[i] = "generate"
  /\ notes_loads' = [notes_loads EXCEPT ![i] = "get_again"]
  /\ notes_requests' = Append(notes_requests, "getAINote")
  /\ UNCHANGED <<isOpen, activeTab, content, aiNotes, loading, contentLoaded,
                 notesLoaded, isProcessed, viewer_session, content_loads>>
  /\ ViewerOnly

\* generateAINote rejects: the inner catch, with no second getAINote.
GenerateRejects(i) ==
  /\ notes_loads[i] = "generate"
  /\ NotesLoadEnds(i, "AI notes not available")

NotesResolveAgain(i) ==
  /\ notes_loads[i] = "get_again"
  /\ \E text \in NotesTexts : NotesLoadEnds(i, text)

NotesRejectAgain(i) ==
  /\ notes_loads[i] = "get_again"
  /\ NotesLoadEnds(i, "AI notes not available")

DocumentViewer ==
  \/ handleToggle
  \/ \E tab \in {"content", "notes"} : handleTabChange(tab)
  \/ \E i \in Loads :
       \/ ContentResolves(i) \/ ContentRejects(i)
       \/ NotesResolve(i) \/ NotesReject(i)
       \/ GenerateResolves(i) \/ GenerateRejects(i)
       \/ NotesResolveAgain(i) \/ NotesRejectAgain(i)

\* ------------------------------------------------------------ AuthProvider

Null == "null"

NoSessionId == ""

UserOf(session_id) == IF session_id = "session_b" THEN "user_b" ELSE "user_a"

StatsOf(session_id) == IF session_id = "session_b" THEN "stats_b" ELSE "stats_a"

\* A Session object; expires_at is kept as its relation to the clock.
SessionOf(session_id, expires_at) ==
  [session_id |-> session_id, user |-> UserOf(session_id), expires_at |-> expires_at]

NullSession == [session_id |-> Null, user |-> Null, expires_at |-> Null]

\* What api.login and api.register answer with.
IssuedSessions == {SessionOf(id, "future") : id \in Sessions}

\* What an earlier visit may have left in localStorage: a session, possibly
\* expired, possibly without a session_id.
SavedSessions ==
  {SessionOf(id, expires_at) :
     id \in {NoSessionId, "session_a"}, expires_at \in {"past", "future"}}

\* localStorage.getItem gives null, or the string last stored.
NoItem == [stored |-> FALSE, json |-> FALSE, value |-> NullSession]

NotJson == [stored |-> TRUE, json |-> FALSE, value |-> NullSession]

\* JSON.stringify(sessionData)
Stringify(sessionData) == [stored |-> TRUE, json |-> TRUE, value |-> sessionData]

\* JSON.parse(savedSession), for a string that parses.
Parse(savedSession) == savedSession.value

SavedItems == {NoItem, NotJson} \cup {Stringify(saved) : saved \in SavedSessions}

\* new Date(sessionData.expires_at) > new Date()
Unexpired(sessionData) == sessionData.expires_at = "future"

isAuthenticated == user # Null /\ provider_session # NullSession

Functions == {"loadSession", "login", "logout", "refreshUsageStats"}

At(function) == pending[function].at

Work(at, session_id, via) == [at |-> at, session_id |-> session_id, via |-> via]

NoWork == Work("idle", NoSessionId, "")

\* The function moves to a position, keeping what it holds.
Move(function, at) == pending' = [pending EXCEPT ![function].at = at]

\* The provider at its first render, the effect not yet run.
Mounting(item) ==
  /\ user = Null /\ provider_session = NullSession /\ usageStats = Null
  /\ isLoading = TRUE
  /\ localStorage = item
  /\ pending = [function \in Functions |->
                  IF function = "loadSession" THEN Work("mount", NoSessionId, "")
                  ELSE NoWork]

AuthUnmounted == Mounting(NoItem)

InitAuth == \E item \in SavedItems : Mounting(item)

\* catch (error) { localStorage.removeItem("lectureai_session")
\*   setSession(null); setUser(null); setUsageStats(null) }
ForgetRejectedKeepStorage ==
  /\ provider_session' = NullSession /\ user' = Null /\ usageStats' = Null
  /\ UNCHANGED localStorage

ForgetRejected ==
  /\ localStorage' = NoItem
  /\ provider_session' = NullSession /\ user' = Null /\ usageStats' = Null

\* The effect runs loadSession up to its first await, or to its end.
LoadBegin ==
  /\ At("loadSession") = "mount"
  /\ LET savedSession == localStorage IN
     IF ~savedSession.stored
     THEN /\ Move("loadSession", "absent")
          /\ UNCHANGED <<user, provider_session, usageStats, localStorage>>
          /\ isLoading' = FALSE
     ELSE IF ~savedSession.json
     THEN /\ Move("loadSession", "unparsable")
          /\ localStorage' = NoItem
          /\ UNCHANGED <<user, provider_session, usageStats>>
          /\ isLoading' = FALSE
     ELSE IF ~Unexpired(Parse(savedSession))
     THEN /\ Move("loadSession", "expired")
          /\ localStorage' = NoItem
          /\ UNCHANGED <<user, provider_session, usageStats>>
          /\ isLoading' = FALSE
     ELSE LET sessionData == Parse(savedSession) IN
          /\ provider_session' = sessionData
          /\ user' = sessionData.user
          /\ pending' = [pending EXCEPT !["loadSession"] =
                           Work("getCurrentUser", sessionData.session_id, "")]
          /\ UNCHANGED <<usageStats, localStorage, isLoading>>
  /\ AuthOnly

\* The server knows the session.
LoadUserResolves ==
  /\ At("loadSession") = "getCurrentUser"
  /\ pending["loadSession"].session_id # NoSessionId
  /\ user' = UserOf(pending["loadSession"].session_id)
  /\ Move("loadSession", "getUserUsageStats")
  /\ UNCHANGED <<provider_session, usageStats, isLoading, localStorage>>
  /\ AuthOnly

LoadStatsResolves ==
  /\ At("loadSession") = "getUserUsageStats"
  /\ usageStats' = StatsOf(pending["loadSession"].session_id)
  /\ isLoading' = FALSE
  /\ Move("loadSession", "verified")
  /\ UNCHANGED <<user, provider_session, localStorage>>
  /\ AuthOnly

\* Either request of the verification rejects.
LoadRejects ==
  /\ At("loadSession") \in {"getCurrentUser", "getUserUsageStats"}
  /\ ForgetRejected
  /\ isLoading' = FALSE
  /\ Move("loadSession", "rejected")
  /\ AuthOnly

\* The auth page shows its forms only while not authenticated.
LoginBegin(via) ==
  /\ At("loadSession") # "mount" /\ At("login") = "idle"
  /\ ~isAuthenticated
  /\ isLoading' = TRUE
  /\ pending' = [pending EXCEPT !["login"] = Work("credentials", NoSessionId, via)]
  /\ UNCHANGED <<user, provider_session, usageStats, localStorage>>
  /\ AuthOnly

LoginResolves(sessionData) ==
  /\ At("login") = "credentials"
  /\ provider_session' = sessionData
  /\ user' = sessionData.user
  /\ localStorage' = Stringify(sessionData)
  /\ pending' = [pending EXCEPT !["login"] =
                   Work("getUserUsageStats", sessionData.session_id, @.via)]
  /\ UNCHANGED <<usageStats, isLoading>>
  /\ AuthOnly

LoginStatsResolves ==
  /\ At("login") = "getUserUsageStats"
  /\ usageStats' = StatsOf(pending["login"].session_id)
  /\ isLoading' = FALSE
  /\ Move("login", "resolved")
  /\ UNCHANGED <<user, provider_session, localStorage>>
  /\ AuthOnly

\* catch: log and rethrow; finally: setIsLoading(false).
LoginRejects ==
  /\ At("login") \in {"credentials", "getUserUsageStats"}
  /\ isLoading' = FALSE
  /\ Move("login", "rejected")
  /\ UNCHANGED <<user, provider_session, usageStats, localStorage>>
  /\ AuthOnly

\* handleLogin / handleRegister take the outcome.
LoginEnds ==
  /\ At("login") \in {"resolved", "rejected"}
  /\ pending' = [pending EXCEPT !["login"] = NoWork]
  /\ UNCHANGED <<user, provider_session, usageStats, isLoading, localStorage>>
  /\ AuthOnly

\* finally { localStorage.removeItem("lectureai_session")
\*   setSession(null); setUser(null); setUsageStats(null) }
ClearSessionKeepStorage ==
  /\ provider_session' = NullSession /\ user' = Null /\ usageStats' = Null
  /\ UNCHANGED localStorage

ClearSession ==
  /\ localStorage' = NoItem
  /\ provider_session' = NullSession /\ user' = Null /\ usageStats' = Null

\* The user menu shows Logout only while authenticated.
LogoutBegin ==
  /\ At("loadSession") # "mount" /\ At("logout") = "idle"
  /\ isAuthenticated
  /\ IF provider_session.session_id # NoSessionId
     THEN /\ pending' = [pending EXCEPT !["logout"] =
                           Work("api", provider_session.session_id, "")]
          /\ UNCHANGED <<user, provider_session, usageStats, localStorage>>
     ELSE /\ Move("logout", "skipped")
          /\ ClearSession
  /\ UNCHANGED isLoading
  /\ AuthOnly

LogoutResolves ==
  /\ At("logout") = "api"
  /\ Move("logout", "succeeded")
  /\ ClearSession
  /\ UNCHANGED isLoading
  /\ AuthOnly

LogoutRejects ==
  /\ At("logout") = "api"
  /\ Move("logout", "failed")
  /\ ClearSession
  /\ UNCHANGED isLoading
  /\ AuthOnly

\* handleLogout takes the outcome.
LogoutEnds ==
  /\ At("logout") \in {"skipped", "succeeded", "failed"}
  /\ pending' = [pending EXCEPT !["logout"] = NoWork]
  /\ UNCHANGED <<user, provider_session, usageStats, isLoading, localStorage>>
  /\ AuthOnly

\* refreshUsageStats with a session; without one it does nothing.
RefreshBegin ==
  /\ At("loadSession") # "mount" /\ At("refreshUsageStats") = "idle"
  /\ provider_session # NullSession
  /\ provider_session.session_id # NoSessionId
  /\ pending' = [pending EXCEPT !["refreshUsageStats"] =
                   Work("getUserUsageStats", provider_session.session_id, "")]
  /\ UNCHANGED <<user, provider_session, usageStats, isLoading, localStorage>>
  /\ AuthOnly

RefreshResolves ==
  /\ At("refreshUsageStats") = "getUserUsageStats"
  /\ usageStats' = StatsOf(pending["refreshUsageStats"].session_id)
  /\ pending' = [pending EXCEPT !["refreshUsageStats"] = NoWork]
  /\ UNCHANGED <<user, provider_session, isLoading, localStorage>>
  /\ AuthOnly

RefreshRejects ==
  /\ At("refreshUsageStats") = "getUserUsageStats"
  /\ pending' = [pending EXCEPT !["refreshUsageStats"] = NoWork]
  /\ UNCHANGED <<user, provider_session, usageStats, isLoading, localStorage>>
  /\ AuthOnly

AuthProvider ==
  \/ LoadBegin \/ LoadUserResolves \/ LoadStatsResolves \/ LoadRejects
  \/ \E via \in {"login", "register"} : LoginBegin(via)
  \/ \E sessionData \in IssuedSessions : LoginResolves(sessionData)
  \/ LoginStatsResolves \/ LoginRejects \/ LoginEnds
  \/ LogoutBegin \/ LogoutResolves \/ LogoutRejects \/ LogoutEnds
  \/ RefreshBegin \/ RefreshResolves \/ RefreshRejects

\* ---------------------------------------------------- UploadDocumentDialog

\* Files dropped over the life of the dialog, uploadFiles calls running at a
\* time, resetDialog timers pending at a time.
MaxFiles == 3
MaxRuns == 2
MaxTimers == 1

FileIds == 1..MaxFiles

Runs == 1..MaxRuns

Destinations == {"lectureId", "courseId", "neither"}

UploadFile(id, status) == [id |-> id, status |-> status]

Run(at, snapshot, i, called) ==
  [at |-> at, snapshot |-> snapshot, i |-> i, called |-> called]

NoRun == Run("idle", <<>>, 0, 0)

DialogClosed ==
  /\ open = FALSE /\ files = <<>> /\ uploading = FALSE
  /\ destination = "neither"
  /\ runs = [r \in Runs |-> NoRun]
  /\ reset_timers = 0
  /\ nextId = 1
  /\ uploads = [id \in FileIds |-> 0]

InitDialog ==
  /\ open = FALSE /\ files = <<>> /\ uploading = FALSE
  /\ destination \in Destinations
  /\ runs = [r \in Runs |-> NoRun]
  /\ reset_timers = 0
  /\ nextId = 1
  /\ uploads = [id \in FileIds |-> 0]

\* The status a file of the list shows; "absent" for one not in the list.
StatusOf(list, id) ==
  IF \E n \in 1..Len(list) : list[n].id = id
  THEN list[CHOOSE n \in 1..Len(list) : list[n].id = id].status
  ELSE "absent"

\* prev.map((f) => (f.id === id ? { ...f, status } : f))
SetStatus(prev, id, status) ==
  [n \in 1..Len(prev) |->
     IF prev[n].id = id THEN [prev[n] EXCEPT !.status = status] ELSE prev[n]]

\* prev.filter(keep)
RECURSIVE Filter(_, _)
Filter(prev, kept) ==
  IF prev = <<>> THEN <<>>
  ELSE IF Head(prev).id \in kept
       THEN <<Head(prev)>> \o Filter(Tail(prev), kept)
       ELSE Filter(Tail(prev), kept)

allCompleted ==
  /\ Len(files) > 0
  /\ \A n \in 1..Len(files) : files[n].status \in {"success", "error"}

hasErrors == \E n \in 1..Len(files) : files[n].status = "error"

\* The next file of the snapshot the loop does not skip, from position i on
\* (0 when there is none).
NextPending(snapshot, i) ==
  LET later == {j \in i..Len(snapshot) : snapshot[j].status = "pending"}
  IN IF later = {} THEN 0 ELSE CHOOSE j \in later : \A k \in later : j <= k

\* Every pending file of the snapshot from position i on fails with no
\* request sent: neither lectureId nor courseId was given.
RECURSIVE FailAll(_, _, _)
FailAll(prev, snapshot, i) ==
  IF NextPending(snapshot, i) = 0 THEN prev
  ELSE FailAll(SetStatus(prev, snapshot[NextPending(snapshot, i)].id, "error"),
               snapshot, NextPending(snapshot, i) + 1)

\* The for loop of uploadFiles from position i of its snapshot, applied to
\* the list as it is now, up to the next await or through the two statements
\* after the loop.
Proceed(r, snapshot, i, prev, flag) ==
  IF destination = "neither"
  THEN /\ files' = FailAll(prev, snapshot, i)
       /\ uploading' = FALSE
       /\ runs' = [runs EXCEPT ![r] = Run("ended", snapshot, 0, 1)]
       /\ UNCHANGED uploads
  ELSE LET j == NextPending(snapshot, i) IN
       IF j = 0
       THEN /\ files' = prev
            /\ uploading' = FALSE
            /\ runs' = [runs EXCEPT ![r] = Run("ended", snapshot, 0, 1)]
            /\ UNCHANGED uploads
       ELSE /\ files' = SetStatus(prev, snapshot[j].id, "uploading")
            /\ uploading' = flag
            /\ runs' = [runs EXCEPT ![r] = Run("await", snapshot, j, 0)]
            /\ uploads' = [uploads EXCEPT ![snapshot[j].id] = @ + 1]

\* The trigger is clicked.
OpenDialog ==
  /\ ~open
  /\ open' = TRUE
  /\ UNCHANGED <<files, uploading, destination, runs, reset_timers, nextId, uploads>>
  /\ UploadOnly

\* Escape or a click outside: onOpenChange(false), with no reset.
DismissDialog ==
  /\ open
  /\ open' = FALSE
  /\ UNCHANGED <<files, uploading, destination, runs, reset_timers, nextId, uploads>>
  /\ UploadOnly

\* Cancel / Close, disabled while uploading.
handleClose ==
  /\ open /\ ~uploading
  /\ reset_timers < MaxTimers
  /\ open' = FALSE
  /\ reset_timers' = reset_timers + 1
  /\ UNCHANGED <<files, uploading, destination, runs, nextId, uploads>>
  /\ UploadOnly

\* The timer of handleClose fires.
resetDialog ==
  /\ reset_timers > 0
  /\ reset_timers' = reset_timers - 1
  /\ files' = <<>>
  /\ uploading' = FALSE
  /\ UNCHANGED <<open, destination, runs, nextId, uploads>>
  /\ UploadOnly

\* A file is dropped, or chosen in the file dialog; the drop zone takes no
\* pointer events while uploading.
onDrop ==
  /\ open /\ ~uploading
  /\ nextId <= MaxFiles
  /\ files' = Append(files, UploadFile(nextId, "pending"))
  /\ nextId' = nextId + 1
  /\ UNCHANGED <<open, uploading, destination, runs, reset_timers, uploads>>
  /\ UploadOnly

\* The X of a pending file, shown while not uploading.
removeFile(id) ==
  /\ open /\ ~uploading
  /\ StatusOf(files, id) = "pending"
  /\ files' = Filter(files, FileIds \ {id})
  /\ UNCHANGED <<open, uploading, destination, runs, reset_timers, nextId, uploads>>
  /\ UploadOnly

\* Remove Failed, shown when all files are completed and some failed.
RemoveFailed ==
  /\ open /\ allCompleted /\ hasErrors
  /\ files' = Filter(files, {id \in FileIds : StatusOf(files, id) # "error"})
  /\ UNCHANGED <<open, uploading, destination, runs, reset_timers, nextId, uploads>>
  /\ UploadOnly

\* Upload is clicked: uploadFiles over the list of this render.
uploadFiles(r) ==
  /\ open
  /\ ~(Len(files) = 0 \/ uploading \/ allCompleted)
  /\ runs[r].at # "await"
  /\ \A q \in Runs : q < r => runs[q].at = "await"
  /\ Proceed(r, files, 1, files, TRUE)
  /\ UNCHANGED <<open, destination, reset_timers, nextId>>
  /\ UploadOnly

\* The upload request of a run resolves.
UploadResolves(r) ==
  /\ runs[r].at = "await"
  /\ LET snapshot == runs[r].snapshot
         i == runs[r].i
     IN Proceed(r, snapshot, i + 1,
                SetStatus(files, snapshot[i].id, "success"), uploading)
  /\ UNCHANGED <<open, destination, reset_timers, nextId>>
  /\ UploadOnly

\* The upload request of a run rejects.
UploadRejects(r) ==
  /\ runs[r].at = "await"
  /\ LET snapshot == runs[r].snapshot
         i == runs[r].i
     IN Proceed(r, snapshot, i + 1,
                SetStatus(files, snapshot[i].id, "error"), uploading)
  /\ UNCHANGED <<open, destination, reset_timers, nextId>>
  /\ UploadOnly

UploadDocumentDialog ==
  \/ OpenDialog \/ DismissDialog \/ handleClose \/ resetDialog \/ onDrop
  \/ \E id \in FileIds : removeFile(id)
  \/ RemoveFailed
  \/ \E r \in Runs : uploadFiles(r) \/ UploadResolves(r) \/ UploadRejects(r)

\* ------------------------------------------------------------------ process

ReturnPcs ==
  {"done", "failed", "cancelled", "search_return", "delete_return", "query_return"}

\* The call returns (or its exception reaches the caller); its locals die.
Return(t) ==
  /\ phase = "running" /\ pc[t] \in ReturnPcs
  /\ pc' = [pc EXCEPT ![t] = "idle"]
  /\ call' = [call EXCEPT ![t] = NoCall]
  /\ heap' = Sweep(heap, document_indices, call')
  /\ UNCHANGED <<document_indices, disk, phase, listing, nextCall>>
  /\ StoreOnly

\* Threads a crash catches inside a file write, and the file each was writing.
Writing ==
  {t \in Threads :
     \/ pc[t] = "save_faiss" /\ document_indices[call[t].document_id] # None
     \/ pc[t] = "save_meta"}

TargetFile(t) ==
  IF pc[t] = "save_faiss" THEN FaissFile(call[t].document_id)
  ELSE MetadataFile(call[t].document_id)

\* The process dies: memory is lost, a file being written is left torn, and
\* the next process starts with load_all_document_indices.
Crash ==
  /\ \E torn \in SUBSET Writing :
       disk' = [n \in (DOMAIN disk) \cup {TargetFile(t) : t \in torn} |->
                  IF n \in {TargetFile(t) : t \in torn} THEN Torn ELSE disk[n]]
  /\ document_indices' = [d \in Docs |-> None]
  /\ heap' = [o \in ObjIds |-> NoObj]
  /\ pc' = [t \in Threads |-> "idle"]
  /\ call' = [t \in Threads |-> NoCall]
  /\ phase' = "loading"
  /\ listing' = DOMAIN disk'
  /\ UNCHANGED nextCall
  /\ StoreOnly

\* An orderly restart: no call is in flight when the process stops.
Restart ==
  /\ phase = "running"
  /\ \A t \in Threads : pc[t] = "idle"
  /\ \E d \in Docs : document_indices[d] # None
  /\ document_indices' = [d \in Docs |-> None]
  /\ heap' = [o \in ObjIds |-> NoObj]
  /\ phase' = "loading"
  /\ listing' = DOMAIN disk
  /\ UNCHANGED <<disk, pc, call, nextCall>>
  /\ StoreOnly

Step(t) ==
  \/ IngestBegin(t) \/ EmbedOk(t) \/ EmbedFail(t)
  \/ AddCheck(t) \/ AddCreate(t) \/ AddGet(t) \/ AddIndex(t) \/ AddMeta(t)
  \/ SaveFaiss(t) \/ SaveMeta(t)
  \/ SearchCheck(t) \/ SearchRun(t)
  \/ DeleteFaiss(t) \/ DeleteMetadata(t) \/ DeleteMemory(t)
  \/ Return(t)

LoadAll == LoadAllVisit \/ LoadAllRaise \/ LoadAllDone

\* ---------------------------------------------------------- specifications

vars ==
  <<tie_order, storeVars, chunkerVars, listVars, requestVars, viewerVars, authVars,
    uploadVars>>

\* The store starts up; no text is being chunked and the client is not running.
Init == InitStore /\ ChunkerIdle /\ ListUnmounted /\ RequestIdle /\ ViewerClosed
  /\ AuthUnmounted /\ DialogClosed

\* Concurrent request handlers over one registry, with crashes.
Next == (\E t \in Threads : Step(t)) \/ LoadAll \/ Crash

\* The order of tied hits plays no part in how the handlers interleave: the
\* interleavings are explored for the build that yields ties in ascending
\* order, the sequential specifications below for both builds.
InitConcurrent == Init /\ tie_order = "ascending"

Spec == InitConcurrent /\ [][Next]_vars

\* One request at a time, with orderly restarts only.
NextSeq == Step(1) \/ LoadAll \/ Restart

SpecSeq == Init /\ [][NextSeq]_vars

\* One request at a time, the process free to crash at any moment.
NextCrash == Step(1) \/ LoadAll \/ Crash

SpecCrash == Init /\ [][NextCrash]_vars

\* One request at a time, the caller free to cancel an ingestion.
NextCancel == Step(1) \/ Cancel(1) \/ LoadAll \/ Restart

SpecCancel == Init /\ [][NextCancel]_vars

\* Most vectors an index holds when the queries start.
MaxStored == 4

\* The two ingestion calls that filled a document's index.
StoredCalls(document_id) ==
  LET rank == Cardinality({d \in Docs : d < document_id})
  IN <<2 * rank + 1, 2 * rank + 2>>

\* The index add_document_vectors leaves after a call of n1 chunks and a call
\* of n2 chunks.
StoredIndex(document_id, n1, n2) ==
  LET batch == BatchOf(StoredCalls(document_id)[1], n1)
                 \o BatchOf(StoredCalls(document_id)[2], n2)
  IN [kind |-> "index",
      index |-> [n \in 1..Len(batch) |-> NormalizeL2(EncodeChunk(batch[n]))],
      metadata |-> [id \in 0..(Len(batch) - 1) |-> batch[id + 1]],
      dimension |-> Len(EncodeChunk(Chunk(0, 0)))]

StoredObj(document_id) == Cardinality({d \in Docs : d <= document_id})

\* A running store that earlier ingestions have filled: each document has no
\* index at all, or a persisted index that is resident or still to be loaded.
InitQuery ==
  /\ tie_order \in TieOrders
  /\ \E n1 \in [Docs -> 0..MaxStored], n2 \in [Docs -> 0..MaxStored],
        resident \in SUBSET Docs :
       /\ \A d \in Docs : n1[d] + n2[d] <= MaxStored
       /\ \A d \in resident : n1[d] + n2[d] > 0
       /\ document_indices = [d \in Docs |-> IF d \in resident THEN StoredObj(d) ELSE None]
       /\ heap = [o \in ObjIds |->
                    IF \E d \in resident : StoredObj(d) = o
                    THEN LET d == CHOOSE d \in resident : StoredObj(d) = o
                         IN StoredIndex(d, n1[d], n2[d])
                    ELSE NoObj]
       /\ disk = [f \in UNION {{FaissFile(d), MetadataFile(d)} :
                                 d \in {e \in Docs : n1[e] + n2[e] > 0}} |->
                    LET d == CHOOSE d \in Docs : f \in {FaissFile(d), MetadataFile(d)}
                        obj == StoredIndex(d, n1[d], n2[d])
                    IN IF f = FaissFile(d)
                       THEN FaissContent(obj, StoredCalls(d)[2])
                       ELSE MetadataContent(obj, StoredCalls(d)[2])]
  /\ phase = "running"
  /\ listing = {}
  /\ pc = [t \in Threads |-> "idle"]
  /\ call = [t \in Threads |-> NoCall]
  /\ nextCall = MaxCalls + 1
  /\ ChunkerIdle /\ ListUnmounted /\ RequestIdle /\ ViewerClosed
  /\ AuthUnmounted /\ DialogClosed

\* Searches and course-wide queries, one at a time, over a filled store.
NextQuery == SearchCheck(1) \/ SearchRun(1) \/ QueryStep(1) \/ Return(1)

SpecQuery == InitQuery /\ [][NextQuery]_vars

\* create_chunks run on one text.
InitChunks == InitStore /\ InitChunker /\ ListUnmounted /\ RequestIdle /\ ViewerClosed
  /\ AuthUnmounted /\ DialogClosed

NextChunks == CreateChunks

SpecChunks == InitChunks /\ [][NextChunks]_vars

\* One DocumentList instance on a page, with the clock.
NextList == DocumentList

SpecList == Init /\ [][NextList]_vars

\* Calls of APIClient.request, one after the other.
NextRequest == Request

SpecRequest == Init /\ [][NextRequest]_vars

\* One document card, clicked while its requests are in flight.
InitViewerSpec ==
  /\ InitStore /\ ChunkerIdle /\ ListUnmounted /\ RequestIdle /\ InitViewer
  /\ AuthUnmounted /\ DialogClosed

NextViewer == DocumentViewer

SpecViewer == InitViewerSpec /\ [][NextViewer]_vars

\* The provider from its mount, its functions called while others await.
InitAuthSpec ==
  /\ InitStore /\ ChunkerIdle /\ ListUnmounted /\ RequestIdle /\ ViewerClosed
  /\ InitAuth /\ DialogClosed

NextAuth == AuthProvider

SpecAuth == InitAuthSpec /\ [][NextAuth]_vars

\* The upload dialog, opened, filled, closed and run.
InitUpload ==
  /\ InitStore /\ ChunkerIdle /\ ListUnmounted /\ RequestIdle /\ ViewerClosed
  /\ AuthUnmounted /\ InitDialog

NextUpload == UploadDocumentDialog

SpecUpload == InitUpload /\ [][NextUpload]_vars

\* The same, where every upload request is answered in the end and every
\* timer fires.
SpecUploadFair ==
  /\ InitUpload /\ [][NextUpload]_vars
  /\ \A r \in Runs : WF_vars(UploadResolves(r) \/ UploadRejects(r))
  /\ WF_vars(resetDialog)

\* ================================================================== claims

\* The thread whose call a step belongs to, the operation and its document.
Acting(t) == pc'[t] # pc[t] \/ call'[t] # call[t]
OpOf(t) == IF pc[t] = "idle" THEN call'[t].op ELSE call[t].op
DocOf(t) == IF pc[t] = "idle" THEN call'[t].document_id ELSE call[t].document_id

\* What search_document would return for a document in a given state.
SearchNow(di, h, d, document_id, q) ==
  IF di[document_id] # None THEN SearchIndex(document_id, h[di[document_id]], q, DefaultK)
  ELSE IF CanLoad(d, document_id)
       THEN SearchIndex(document_id, Loaded(d, document_id), q, DefaultK)
       ELSE <<>>

\* C1  Document isolation: a step of an ingestion or a deletion of document A
\* leaves every other document B's in-memory vectors and metadata, persisted
\* files and search results as they were.
DocumentIsolation ==
  [][\A t \in Threads :
       (Acting(t) /\ OpOf(t) \in {"ingest", "delete"}) =>
         \A b \in Docs \ {DocOf(t)} :
           /\ ViewOf(document_indices', heap', disk', b)
                = ViewOf(document_indices, heap, disk, b)
           /\ \A q \in Queries :
                SearchNow(document_indices', heap', disk', b, q)
                  = SearchNow(document_indices, heap, disk, b, q)]_vars

\* An ingestion into A has completed while B holds persisted vectors.
DocumentIsolationWitness ==
  \E t \in Threads, b \in Docs :
    /\ pc[t] = "done" /\ call[t].document_id # b
    /\ document_indices[b] # None
    /\ Ntotal(heap[document_indices[b]]) > 0
    /\ CanLoad(disk, b)

\* C2  Single-flight creation: add_document_vectors constructs an index for a
\* document only while the registry holds none for it, so a construction never
\* replaces an index that is already registered.
SingleFlightCreation ==
  [][\A t \in Threads :
       (pc[t] = "add_create" /\ pc'[t] = "add_get") =>
         document_indices[call[t].document_id] = None]_vars

\* C3  add is atomic for search: every hit a search returns carries the
\* metadata of its chunk, so no vector of a batch is visible before the batch
\* is complete.
AddAtomicForSearch ==
  \A t \in Threads :
    pc[t] = "search_return" =>
      \A n \in DOMAIN call[t].results : call[t].results[n].metadata # EmptyMeta

\* The batch of thread t's add sits at the ids the call computed for it.
BatchInPlace(t) ==
  LET obj == heap[call[t].doc_data]
  IN \A i \in 0..(Len(call[t].batch) - 1) :
       /\ call[t].current_size + i \in DOMAIN obj.metadata
       /\ obj.metadata[call[t].current_size + i] = call[t].batch[i + 1]

\* C4  Ingestions of one document serialize: two completed add calls into the
\* same index hold disjoint id ranges of it, each range carrying its own
\* batch's metadata.
IngestionsSerialize ==
  \A t, u \in Threads :
    (t # u /\ pc[t] = "done" /\ pc[u] = "done"
       /\ call[t].document_id = call[u].document_id
       /\ call[t].doc_data = call[u].doc_data) =>
      /\ \/ call[t].current_size + Len(call[t].batch) <= call[u].current_size
         \/ call[u].current_size + Len(call[u].batch) <= call[t].current_size
      /\ BatchInPlace(t) /\ BatchInPlace(u)
      /\ Ntotal(heap[call[t].doc_data])
           >= call[t].current_size + Len(call[t].batch)
      /\ Ntotal(heap[call[t].doc_data])
           >= call[u].current_size + Len(call[u].batch)

\* C5  Ingestion is all-or-nothing: when an ingestion ends by an embedding
\* failure or by the caller's cancellation, the document's in-memory index and
\* persisted files are what they were when the call began.
IngestAllOrNothing ==
  \A t \in Threads :
    (call[t].op = "ingest" /\ pc[t] \in {"failed", "cancelled"}) =>
      ViewOf(document_indices, heap, disk, call[t].document_id) = call[t].before

\* C6  Delete fails closed: at the moment deleteDocument returns ok, none of
\* the document's index files is on disk and a search of the document returns
\* no vector.
DeleteFailsClosed ==
  [][\A t \in Threads :
       (pc[t] = "delete_memory" /\ pc'[t] = "delete_return") =>
         LET d == call[t].document_id
         IN /\ FaissFile(d) \notin DOMAIN disk'
            /\ MetadataFile(d) \notin DOMAIN disk'
            /\ \A q \in Queries :
                 SearchNow(document_indices', heap', disk', d, q) = <<>>]_vars

\* C7  The two persisted files are never partially valid: an index that
\* start-up loading has registered has as many vectors as metadata entries,
\* both written by the same persist call.
PersistedPairValid ==
  phase = "loading" =>
    \A d \in Docs :
      document_indices[d] # None =>
        /\ Ntotal(heap[document_indices[d]])
             = Cardinality(DOMAIN heap[document_indices[d]].metadata)
        /\ disk[FaissFile(d)].by = disk[MetadataFile(d)].by

\* C9  loadAll is failure-isolated: when start-up loading ends, every document
\* whose files load is registered.
LoadAllFailureIsolated ==
  [][(phase = "loading" /\ phase' = "running") =>
       \A d \in Docs : CanLoad(disk, d) => document_indices'[d] # None]_vars

IdsDense(document_id) ==
  document_indices[document_id] # None =>
    LET obj == heap[document_indices[document_id]]
    IN DOMAIN obj.metadata = 0..(Ntotal(obj) - 1)

\* The index ends with thread t's batch, at the ids from current_size on.
BatchAtEnd(t) ==
  LET obj == heap[document_indices[call[t].document_id]]
  IN /\ Ntotal(obj) = call[t].current_size + Len(call[t].batch)
     /\ \A i \in 0..(Len(call[t].batch) - 1) :
          /\ call[t].current_size + i \in DOMAIN obj.metadata
          /\ obj.metadata[call[t].current_size + i] = call[t].batch[i + 1]

\* A step keeps every id of a registered index on its chunk.
IdsKept(document_id) ==
  (document_indices[document_id] # None
     /\ document_indices'[document_id] = document_indices[document_id]) =>
    LET old == heap[document_indices[document_id]].metadata
        new == heap'[document_indices[document_id]].metadata
    IN \A k \in DOMAIN old : k \in DOMAIN new /\ new[k] = old[k]

\* C10  vector_ids are append-only and dense: a completed add gave its batch
\* the ids n, n+1, ... where n was the size of the index before it; between
\* calls the metadata keys are exactly 0..count-1; and an id of a registered
\* index never comes to name another chunk.
AppendOnlyDenseIds ==
  [][/\ \A t \in Threads : pc'[t] = "done" => BatchAtEnd(t)'
     /\ \A d \in Docs :
          ((\A t \in Threads : pc'[t] \in {"idle", "done"}) => IdsDense(d)')
     /\ \A d \in Docs : IdsKept(d)]_vars

\* A batch of two chunks has been added to an index that already held vectors.
AppendOnlyDenseIdsWitness ==
  \E t \in Threads :
    /\ pc[t] = "done"
    /\ call[t].current_size > 0
    /\ Len(call[t].batch) = 2

\* C11  search returns its hits by descending similarity, hits of equal
\* similarity by ascending vector_id.
SearchRankedByIdOnTies ==
  \A t \in Threads :
    (call[t].op = "search" /\ pc[t] = "search_return") =>
      \A m, n \in DOMAIN call[t].results :
        m < n =>
          \/ call[t].results[m].similarity > call[t].results[n].similarity
          \/ /\ call[t].results[m].similarity = call[t].results[n].similarity
             /\ call[t].results[m].vector_id < call[t].results[n].vector_id

\* C12  The read path never creates: search_document called for a document
\* with no resident index and no index file returns [] at once, raises nothing
\* and leaves the registry without an entry for the document.
ReadPathNeverCreates ==
  [][\A t \in Threads :
       (/\ pc[t] = "idle" /\ pc'[t] # "idle" /\ call'[t].op = "search"
        /\ document_indices[call'[t].document_id] = None
        /\ FaissFile(call'[t].document_id) \notin DOMAIN disk
        /\ MetadataFile(call'[t].document_id) \notin DOMAIN disk) =>
         /\ pc'[t] = "search_return"
         /\ call'[t].results = <<>>
         /\ document_indices'[call'[t].document_id] = None
         /\ disk' = disk]_vars

\* A search of a document that exists nowhere has returned.
ReadPathNeverCreatesWitness ==
  \E t \in Threads :
    /\ call[t].op = "search" /\ pc[t] = "search_return"
    /\ document_indices[call[t].document_id] = None
    /\ FaissFile(call[t].document_id) \notin DOMAIN disk
    /\ MetadataFile(call[t].document_id) \notin DOMAIN disk
    /\ \E d \in Docs : document_indices[d] # None

\* The documents a course-wide query was given, and its hits had the
\* documents been handed over in another order.
QueryDocs(t) == {call[t].document_ids[n] : n \in DOMAIN call[t].document_ids}

RECURSIVE AllChunks(_, _)
AllChunks(ids, q) ==
  IF ids = <<>> THEN <<>>
  ELSE SearchDocument(ids[1], q, KPerDocument) \o AllChunks(Tail(ids), q)

\* C13  queryMany returns the per-document hits merged by descending
\* similarity, ties by lower document_id and then lower vector_id, cut to
\* k_total; the result is the same for every order of the document ids. (Stated
\* for a build whose index searches return ties by ascending vector_id, so
\* that only the merge is in question.)
MergeOrderedAndOrderFree ==
  \A t \in Threads :
    (call[t].op = "query_many" /\ pc[t] = "query_return"
       /\ tie_order = "ascending") =>
      /\ \A m, n \in DOMAIN call[t].results :
           m < n =>
             LET a == call[t].results[m]
                 b == call[t].results[n]
             IN \/ a.similarity > b.similarity
                \/ a.similarity = b.similarity /\ a.document_id < b.document_id
                \/ /\ a.similarity = b.similarity /\ a.document_id = b.document_id
                   /\ a.vector_id < b.vector_id
      /\ \A ids \in Orderings(QueryDocs(t)) :
           Truncate(SortBySimilarity(AllChunks(ids, call[t].query)), MAX_RETRIEVED_DOCS)
             = call[t].results

\* Vectors a document holds, resident or persisted.
StoredCount(document_id) ==
  IF document_indices[document_id] # None
  THEN Ntotal(heap[document_indices[document_id]])
  ELSE IF CanLoad(disk, document_id)
       THEN Len(disk[FaissFile(document_id)].vectors)
       ELSE 0

Least(a, b) == IF a < b THEN a ELSE b

\* Document a has a chunk more similar to the query than every chunk of b.
Outranks(a, b, q) ==
  /\ StoredCount(a) > 0
  /\ \A hit \in {SearchDocument(b, q, StoredCount(b))[n] : n \in 1..StoredCount(b)} :
       SearchDocument(a, q, 1)[1].similarity > hit.similarity

\* A's top hit is ranked above all of B's hits.
TopHitFirst(t, a, b) ==
  /\ call[t].results # <<>>
  /\ call[t].results[1] = SearchDocument(a, call[t].query, 1)[1]
  /\ \A n \in DOMAIN call[t].results :
       call[t].results[n].document_id = b => n > 1

\* C14 as stated  Merge correctness: a query over documents A and B where A
\* outranks B returns A's top hit above all of B's hits, and exactly 5 results
\* whenever the two documents hold at least 5 vectors.
MergeReturnsFive ==
  \A t \in Threads, a \in Docs, b \in Docs :
    (/\ call[t].op = "query_many" /\ pc[t] = "query_return"
     /\ a # b /\ QueryDocs(t) = {a, b}
     /\ Outranks(a, b, call[t].query)) =>
      /\ TopHitFirst(t, a, b)
      /\ StoredCount(a) + StoredCount(b) >= 5 => Len(call[t].results) = 5

\* C14 as amended  A's top hit is ranked above all of B's hits, and the
\* result holds the at most 3 hits of each document, cut to 5: exactly 5 when
\* those hits number at least 5.
MergeReturnsCappedHits ==
  \A t \in Threads, a \in Docs, b \in Docs :
    (/\ call[t].op = "query_many" /\ pc[t] = "query_return"
     /\ a # b /\ QueryDocs(t) = {a, b}
     /\ Outranks(a, b, call[t].query)) =>
      /\ TopHitFirst(t, a, b)
      /\ Len(call[t].results)
           = Least(MAX_RETRIEVED_DOCS,
                   Least(KPerDocument, StoredCount(a)) + Least(KPerDocument, StoredCount(b)))

\* A query over two documents of at least 5 vectors has returned 5 hits, the
\* first from the document that outranks the other.
MergeReturnsCappedHitsWitness ==
  \E t \in Threads, a \in Docs, b \in Docs :
    /\ call[t].op = "query_many" /\ pc[t] = "query_return"
    /\ a # b /\ QueryDocs(t) = {a, b}
    /\ Outranks(a, b, call[t].query)
    /\ StoredCount(b) >= 3
    /\ Len(call[t].results) = 5

\* The sentences a chunk adds to those of the chunk before it: its text without
\* the overlap it repeats.
NewSentences(n) ==
  IF n = 1 THEN chunks[1].text
  ELSE LET last == chunks[n - 1].text[Len(chunks[n - 1].text)]
           IsNew(p) == p > last
       IN SelectSeq(chunks[n].text, IsNew)

RECURSIVE Reassembled(_)
Reassembled(n) ==
  IF n = 0 THEN <<>> ELSE Reassembled(n - 1) \o NewSentences(n)

\* C15  Chunk coverage: the sentences of the emitted chunks, in chunk order
\* and without the overlap duplicates, are the sentences of the text in their
\* order, none dropped, those left in the buffer at the end of the text
\* included.
ChunkCoverage ==
  chunker = "returned" =>
    Reassembled(Len(chunks)) = [p \in 1..Len(sentences) |-> p]

IsSuffix(part, whole) ==
  /\ Len(part) <= Len(whole)
  /\ part = SubSeq(whole, Len(whole) - Len(part) + 1, Len(whole))

\* The sentences of a chunk that come before the sentence that sealed the
\* chunk before it.
LeadingSentences(n) ==
  LET trigger == chunks[n - 1].text[Len(chunks[n - 1].text)] + 1
      IsLead(p) == p < trigger
  IN SelectSeq(chunks[n].text, IsLead)

\* A suffix of a chunk that is overlap_tokens worth of sentences by the token
\* estimate: the longest one of at most overlap_tokens, or the shortest one of
\* at least overlap_tokens (the whole chunk when it has fewer).
OverlapWorth(part, whole) ==
  /\ IsSuffix(part, whole)
  /\ \/ /\ TokensOf(sentences, part) <= chunk_overlap
        /\ Len(part) < Len(whole) =>
             TokensOf(sentences, SubSeq(whole, Len(whole) - Len(part), Len(whole)))
               > chunk_overlap
     \/ /\ TokensOf(sentences, part) >= chunk_overlap \/ part = whole
        /\ part # <<>> => TokensOf(sentences, Tail(part)) < chunk_overlap

\* C16  Overlap correctness: with 0 < overlap < chunk size, every chunk after
\* the first starts with the trailing overlap_tokens worth of sentences of the
\* chunk before it, measured by the token estimate, followed by the sentence
\* that sealed that chunk.
OverlapByTokens ==
  (chunk_overlap > 0 /\ chunk_overlap < chunk_size) =>
    \A n \in 2..Len(chunks) :
      LET before == chunks[n - 1].text
          lead == LeadingSentences(n)
      IN /\ OverlapWorth(lead, before)
         /\ Len(chunks[n].text) > Len(lead)
         /\ chunks[n].text[Len(lead) + 1] = before[Len(before)] + 1

\* C17  An overlap of at least the chunk size is rejected as a configuration
\* error: the accumulation loop never takes a sentence into the buffer and no
\* chunk is emitted.
RejectsOverlapNotBelowSize ==
  (chunk_overlap >= chunk_size /\ chunker # "idle") =>
    current_chunk = <<>> /\ chunks = <<>>

\* C18  A sentence whose token estimate exceeds the chunk size is emitted whole
\* as a chunk of its own, wherever it stands in the text (for a valid
\* configuration, overlap < chunk size).
OversizeSentenceOwnChunk ==
  (chunker = "returned" /\ chunk_overlap < chunk_size) =>
    \A p \in DOMAIN sentences :
      sentences[p] > chunk_size =>
        \E n \in DOMAIN chunks : chunks[n].text = <<p>>

\* C19  Status polling with cleanup: a DocumentList never has two timers
\* active, and none once it is unmounted; while it is mounted with a session
\* and its effect has run, exactly one timer is active, set for the courseId
\* and session of the last render and due within 5 seconds, and the list was
\* last fetched for that render no longer than 5 seconds ago.
PollingByOneTimer ==
  /\ Cardinality(DOMAIN intervals) <= 1
  /\ ~mounted => intervals = NoIntervals
  /\ (mounted /\ ~effect_pending /\ session = NoSession) => intervals = NoIntervals
  /\ (mounted /\ ~effect_pending /\ session # NoSession) =>
       /\ DOMAIN intervals = {cleanup}
       /\ intervals[cleanup].courseId = courseId
       /\ intervals[cleanup].session = session
       /\ intervals[cleanup].due >= now
       /\ intervals[cleanup].due <= now + PollSeconds
       /\ last_fetch.courseId = courseId /\ last_fetch.session = session
       /\ now - last_fetch.at <= PollSeconds

\* The timer of a list mounted with a session has come due a second time and
\* fetched the list.
PollingByOneTimerWitness ==
  /\ mounted /\ ~effect_pending /\ session # NoSession
  /\ last_fetch.by = "interval"
  /\ last_fetch.at = now
  /\ intervals[cleanup].due = now + PollSeconds
  /\ now > PollSeconds + PollSeconds

\* C20 as stated  Every failure of request is an APIError: of the HTTP status
\* when the response is not OK, of status 0 for any other failure.
FailsAsAPIError ==
  (request.at = "settled" /\ settled.state = "rejected") =>
    /\ settled.error.name = "APIError"
    /\ settled.error.status =
         IF response # NoResponse /\ ~response.ok THEN response.status ELSE 0

\* C20 as amended  Every failure of request is an APIError: of the HTTP status
\* when the response is not OK and its error text was read, of status 0 for
\* any other failure (fetch rejected, the body of the response could not be
\* read or parsed); and request fails whenever the response is not OK.
FailsAsAPIErrorOfReadResponse ==
  request.at = "settled" =>
    /\ (response # NoResponse /\ ~response.ok) => settled.state = "rejected"
    /\ settled.state = "rejected" =>
         /\ settled.error.name = "APIError"
         /\ settled.error.status =
              IF response # NoResponse /\ ~response.ok /\ request.body = "read"
              THEN response.status ELSE 0

\* A request has failed on a response that was not OK, with its status.
FailsAsAPIErrorOfReadResponseWitness ==
  /\ request.at = "settled" /\ settled.state = "rejected"
  /\ response # NoResponse /\ ~response.ok
  /\ settled.error.status = response.status
  /\ "X-Session-ID" \in request.headers

\* Occurrences of a request in the notes requests sent so far.
Sent(kind) ==
  Cardinality({n \in 1..Len(notes_requests) : notes_requests[n] = kind})

\* C21: the viewer sends at most one generateAINote request, and once the
\* notes section is loaded no further notes request is sent.
NotesGeneratedOnce ==
  [][/\ Sent("generateAINote")' <= 1
     /\ notesLoaded => notes_requests' = notes_requests]_vars

\* The positions in which a function of the provider has ended.
LogoutEnded == {"skipped", "succeeded", "failed"}
LoadEnded == {"absent", "unparsable", "expired", "rejected", "verified"}
LoginEnded == {"resolved", "rejected"}

SignedOut ==
  /\ provider_session = NullSession /\ user = Null
  /\ ~isAuthenticated
  /\ ~localStorage.stored

\* C22: when logout completes, whether api.logout succeeded, failed or was
\* skipped for lack of a session id, session, user and usageStats are null,
\* the localStorage entry is removed and isAuthenticated is false.
LogoutClearsSession ==
  [][(At("logout") \notin LogoutEnded /\ At("logout")' \in LogoutEnded)
       => (SignedOut /\ usageStats = Null)']_vars

\* A logout has completed although the server call failed.
LogoutClearsSessionWitness ==
  /\ At("logout") = "failed"
  /\ SignedOut /\ usageStats = Null

\* C23: when the mount-time session load finishes, isLoading is false;
\* isAuthenticated is true only if localStorage held an unexpired session and
\* both verification requests were answered; an expired, unparsable or
\* rejected stored session is removed and leaves session and user null.
LoadSessionVerifies ==
  [][(At("loadSession") \notin LoadEnded /\ At("loadSession")' \in LoadEnded)
       => /\ ~isLoading'
          /\ isAuthenticated' =>
               At("loadSession") = "getUserUsageStats" /\ At("loadSession")' = "verified"
          /\ At("loadSession") = "mount" =>
               ~(/\ localStorage.stored /\ localStorage.json
                 /\ Unexpired(Parse(localStorage)))
          /\ At("loadSession")' \in {"unparsable", "expired", "rejected"} =>
               /\ ~localStorage'.stored
               /\ provider_session' = NullSession /\ user' = Null]_vars

\* The server has rejected an unexpired stored session.
LoadSessionVerifiesWitness ==
  /\ At("loadSession") = "rejected"
  /\ SignedOut /\ ~isLoading

\* C24: whenever login or register rejects, session and user are null,
\* isAuthenticated is false and no session is stored in localStorage.
FailedLoginSignedOut ==
  [][(At("login") \notin LoginEnded /\ At("login")' = "rejected") => SignedOut']_vars

\* C25: once every request of the provider has settled, user or usageStats is
\* non-null only if session is non-null, and session is non-null exactly
\* when localStorage holds the entry.
AuthSettled ==
  /\ At("loadSession") \in LoadEnded
  /\ At("login") \in {"idle"} \cup LoginEnded
  /\ At("logout") \in {"idle"} \cup LogoutEnded
  /\ At("refreshUsageStats") = "idle"

AuthConsistent ==
  AuthSettled =>
    /\ (user # Null \/ usageStats # Null) => provider_session # NullSession
    /\ provider_session # NullSession <=> localStorage.stored

\* pending -> uploading -> (success | error)
Rank(status) ==
  CASE status = "pending" -> 0
    [] status = "uploading" -> 1
    [] OTHER -> 2

\* C26: the status of a file of the list only moves forward along
\* pending -> uploading -> (success | error), no upload request is sent for
\* a file that has reached success or error, and at most one file is in
\* status uploading at any time.
UploadStatusForward ==
  [][/\ \A id \in FileIds :
          (StatusOf(files, id) # "absent" /\ StatusOf(files', id) # "absent")
            => /\ Rank(StatusOf(files', id)) >= Rank(StatusOf(files, id))
               /\ Rank(StatusOf(files, id)) = 2
                    => StatusOf(files', id) = StatusOf(files, id)
     /\ \A id \in FileIds :
          uploads'[id] > uploads[id] => StatusOf(files, id) \notin {"success", "error"}
     /\ Cardinality({id \in FileIds : StatusOf(files', id) = "uploading"}) <= 1]_vars

\* The files an awaiting run took as pending when Upload was clicked.
TakenPending(r) ==
  {runs[r].snapshot[n].id :
     n \in {m \in 1..Len(runs[r].snapshot) : runs[r].snapshot[m].status = "pending"}}

\* C27: every file that was pending when Upload was clicked eventually shows
\* success or error, the run ends having invoked onDocumentUploaded exactly
\* once, and the uploading flag returns to false.
UploadRunFinishes ==
  \A r \in Runs :
    /\ \A id \in FileIds :
         (runs[r].at = "await" /\ id \in TakenPending(r))
           ~> (StatusOf(files, id) \in {"success", "error"})
    /\ (runs[r].at = "await") ~> (runs[r].at = "ended" /\ runs[r].called = 1)
    /\ (runs[r].at = "await") ~> ~uploading

====
